---- MODULE Spec2Model ----
(***************************************************************************)
(* Weather-Data-Visualizer: the upload / time-series / export handlers of  *)
(* src/routes.py and the process-wide single-slot dataset they share.      *)
(*                                                                         *)
(* Coordinate names are sequences of one-character strings, so that the    *)
(* lower-casing and the substring tests of the role detection are computed *)
(* and not looked up.  Instants are integer ticks of twelve hours.         *)
(***************************************************************************)
EXTENDS Integers, Sequences, FiniteSets, TLC

VARIABLES current_dataset, resp, lastOk, names, roles, inflight, uploading

vars == <<current_dataset, resp, lastOk, names, roles, inflight, uploading>>

(***************************************************************************)
(* Bounds of the model.                                                    *)
(***************************************************************************)
\* longest coordinate-name sequence handed to the role detection on its own
MaxCoords == 3
\* largest latitude a request asks for (the smallest is -1)
MaxLatQ == 2
\* largest longitude a request asks for (the smallest is 6, half-way
\* between two grid values)
MaxLonQ == 6
\* latest tick a request names as start or end of its window (the first is 0)
MaxTick == 3

\* pd.Timedelta(days=1) in ticks
Day == 2

(***************************************************************************)
(* Strings as character sequences: str.lower() and the `in` substring test *)
(***************************************************************************)
UpperAlpha == <<"A","B","C","D","E","F","G","H","I","J","K","L","M",
                "N","O","P","Q","R","S","T","U","V","W","X","Y","Z">>

LowerAlpha == <<"a","b","c","d","e","f","g","h","i","j","k","l","m",
                "n","o","p","q","r","s","t","u","v","w","x","y","z">>

\* str.lower() on the letters A..Z; every other character is kept
UpperSet == {UpperAlpha[i] : i \in 1..Len(UpperAlpha)}

LowerOfUpper == [c \in UpperSet |->
                    LowerAlpha[CHOOSE i \in 1..Len(UpperAlpha) : UpperAlpha[i] = c]]

LowerChar(c) == IF c \in UpperSet THEN LowerOfUpper[c] ELSE c

Lower(s) == [i \in 1..Len(s) |-> LowerChar(s[i])]

\* sub in s
Contains(sub, s) ==
    \E i \in 1..(Len(s) - Len(sub) + 1) : SubSeq(s, i, i + Len(sub) - 1) = sub

Range(s) == {s[i] : i \in 1..Len(s)}

S_lat == <<"l","a","t">>
S_lon == <<"l","o","n">>
S_time == <<"t","i","m","e">>
S_date == <<"d","a","t","e">>
S_datetime == <<"d","a","t","e","t","i","m","e">>
S_valid_time == <<"v","a","l","i","d","_","t","i","m","e">>

\* coordinate names that occur in the datasets of the model
N_time == <<"t","i","m","e">>
N_valid_time == <<"v","a","l","i","d","_","t","i","m","e">>
N_lat == <<"l","a","t">>
N_lon == <<"l","o","n">>
N_Latitude == <<"L","a","t","i","t","u","d","e">>
N_Longitude == <<"L","o","n","g","i","t","u","d","e">>
N_relative_time == <<"r","e","l","a","t","i","v","e","_","t","i","m","e">>
N_level == <<"l","e","v","e","l">>
N_station == <<"s","t","a","t","i","o","n">>
N_DATE == <<"D","A","T","E">>

\* no coordinate has the role (Python None; like None it is falsy)
NoName == << >>

(***************************************************************************)
(* Role detection.  The three loops of routes.py that detect latitude,     *)
(* longitude and time, and the loop of extract_file_info, each as written. *)
(***************************************************************************)
NoRoles == [lat |-> NoName, lon |-> NoName, time |-> NoName]

RECURSIVE DetectLoop(_, _, _)
DetectLoop(coords, i, acc) ==
    IF i > Len(coords) THEN acc
    ELSE LET coord == coords[i]
             c == Lower(coord)
         IN  DetectLoop(coords, i + 1,
                 IF Contains(S_lat, c) THEN [acc EXCEPT !.lat = coord]
                 ELSE IF Contains(S_lon, c) THEN [acc EXCEPT !.lon = coord]
                 ELSE IF Contains(S_time, c) \/ Contains(S_date, c)
                      THEN [acc EXCEPT !.time = coord]
                 ELSE acc)

\* a detection loop that tests every role on every name (if / if / if)
RECURSIVE DetectLoopNoElif(_, _, _)
DetectLoopNoElif(coords, i, acc) ==
    IF i > Len(coords) THEN acc
    ELSE LET coord == coords[i]
             c == Lower(coord)
             a1 == IF Contains(S_lat, c) THEN [acc EXCEPT !.lat = coord] ELSE acc
             a2 == IF Contains(S_lon, c) THEN [a1 EXCEPT !.lon = coord] ELSE a1
             a3 == IF Contains(S_time, c) \/ Contains(S_date, c)
                   THEN [a2 EXCEPT !.time = coord] ELSE a2
         IN  DetectLoopNoElif(coords, i + 1, a3)

DetectCoordsNoElif(coords) == DetectLoopNoElif(coords, 1, NoRoles)

\* get_timeseries: "Detect coordinates once"
DetectCoords(coords) == DetectLoop(coords, 1, NoRoles)

\* download_timeseries_csv: "Detect coordinates" (the same loop, written again)
ExportDetectCoords(coords) == DetectLoop(coords, 1, NoRoles)

RECURSIVE MapLoop(_, _, _)
MapLoop(coords, i, acc) ==
    IF i > Len(coords) THEN acc
    ELSE LET coord == coords[i]
             c == Lower(coord)
         IN  MapLoop(coords, i + 1,
                 IF Contains(S_lat, c) THEN [acc EXCEPT !.lat = coord]
                 ELSE IF Contains(S_lon, c) THEN [acc EXCEPT !.lon = coord]
                 ELSE acc)

\* create_coverage_map: lat_var and lon_var
MapDetectCoords(coords) == MapLoop(coords, 1, NoRoles)

IsTimeLike(c) ==
    \/ Contains(S_time, c)
    \/ Contains(S_date, c)
    \/ Contains(S_datetime, c)
    \/ Contains(S_valid_time, c)

RECURSIVE InfoTimeLoop(_, _)
InfoTimeLoop(coords, i) ==
    IF i > Len(coords) THEN NoName
    ELSE IF IsTimeLike(Lower(coords[i])) THEN coords[i]
    ELSE InfoTimeLoop(coords, i + 1)

\* extract_file_info: time_var, found by a loop that breaks at the first match
InfoTimeVar(coords) == InfoTimeLoop(coords, 1)

(***************************************************************************)
(* Text that goes into an export: sequences of code points, so that        *)
(* sanitize_text is computed on them.  str() of a name encodes it.         *)
(***************************************************************************)
Digits == <<"0","1","2","3","4","5","6","7","8","9">>

\* ord() of the characters that occur in names and units
Ord == [c \in UpperSet \cup {LowerAlpha[i] : i \in 1..Len(LowerAlpha)}
                       \cup {Digits[i] : i \in 1..Len(Digits)}
                       \cup {" ", "(", ")", "-", ".", "_"} |->
           IF c \in UpperSet
               THEN 64 + (CHOOSE i \in 1..Len(UpperAlpha) : UpperAlpha[i] = c)
           ELSE IF \E i \in 1..Len(LowerAlpha) : LowerAlpha[i] = c
               THEN 96 + (CHOOSE i \in 1..Len(LowerAlpha) : LowerAlpha[i] = c)
           ELSE IF \E i \in 1..Len(Digits) : Digits[i] = c
               THEN 47 + (CHOOSE i \in 1..Len(Digits) : Digits[i] = c)
           ELSE IF c = " " THEN 32
           ELSE IF c = "(" THEN 40
           ELSE IF c = ")" THEN 41
           ELSE IF c = "-" THEN 45
           ELSE IF c = "." THEN 46
           ELSE 95]

\* the text of a name
Encode(s) == [i \in 1..Len(s) |-> Ord[s[i]]]

T_NaN == Encode(<<"N","a","N">>)
T_Value == Encode(<<"V","a","l","u","e">>)

\* str() of a non-negative integer
RECURSIVE NatStr(_)
NatStr(n) == IF n < 10 THEN <<48 + n>> ELSE Append(NatStr(n \div 10), 48 + (n % 10))

\* str() of an integer
IntStr(n) == IF n < 0 THEN <<45>> \o NatStr(0 - n) ELSE NatStr(n)

\* str() of a float held in hundredths: at least one digit after the point
FloatStr(v) ==
    LET a == IF v < 0 THEN 0 - v ELSE v
        frac == a % 100
        sign == IF v < 0 THEN <<45>> ELSE << >>
    IN  sign \o NatStr(a \div 100) \o <<46>> \o
        (IF frac % 10 = 0 THEN <<48 + (frac \div 10)>>
         ELSE <<48 + (frac \div 10), 48 + (frac % 10)>>)

(***************************************************************************)
(* Cells: the values of variables and of table columns.  Numbers are held  *)
(* in hundredths (273.15 is 27315); a missing value is NaN.                *)
(***************************************************************************)
Num(v) == [kind |-> "num", v |-> v, s |-> << >>]

NaN == [kind |-> "nan", v |-> 0, s |-> << >>]

Str(s) == [kind |-> "str", v |-> 0, s |-> s]

Time(t) == [kind |-> "time", v |-> t, s |-> << >>]

\* a variable's units attribute
NoUnits == [has |-> FALSE, text |-> << >>]

Units(text) == [has |-> TRUE, text |-> text]

\* a data variable: the dimensions it spans, in order, its attrs['units'],
\* its dtype and its values, keyed by the coordinate values along dims
DataVar(name, dims, units, dtype, data) ==
    [name |-> name, dims |-> dims, units |-> units, dtype |-> dtype, data |-> data]

(***************************************************************************)
(* Datasets.  A dataset is the ordered list of its coordinates; each has   *)
(* a name, the kind of its values, whether it is a dimension coordinate    *)
(* (only those carry an index that .sel() can use) and its values.         *)
(* Decoded NetCDF/GRIB time axes are timezone-naive.                       *)
(***************************************************************************)
Coord(name, kind, dim, vals) ==
    [name |-> name, kind |-> kind, dim |-> dim, vals |-> vals,
     tzaware |-> FALSE, tzoff |-> 0, along |-> name]

\* a coordinate that is not a dimension: its values run along dimension d
Along(c, d) == [c EXCEPT !.along = d]

NoDataset == [id |-> "", coords |-> << >>, vars |-> << >>]

DailyAxis == <<0, 2, 4, 6>>

\* variable names and unit strings that occur in the datasets of the model
N_t2m == <<"t","2","m">>
N_tp == <<"t","p">>
N_sst == <<"s","s","t">>
N_lsm == <<"l","s","m">>
N_soil == <<"s","o","i","l">>
N_note == <<"n","o","t","e">>

U_K == <<"K">>
U_mm == <<"m","m">>
U_kg_m2 == <<"k","g"," ","m","-","2">>
U_m_s == <<"m"," ","s","-","1">>

\* 2 m temperature in kelvin (273.15, 283.15, ... at latitude 0), rainfall
\* that is 0 at latitude 0 and has a gap at latitude 3, a sea temperature
\* that is missing over land (latitude 0), an integer land-sea mask that
\* does not span time
DsEra ==
    [id |-> "era",
     coords |-> << Coord(N_time, "time", TRUE, DailyAxis),
                   Coord(N_lat, "num", TRUE, <<0, 3>>),
                   Coord(N_lon, "num", TRUE, <<5, 7>>) >>,
     vars |-> <<
        DataVar(N_t2m, <<N_time, N_lat, N_lon>>, Units(U_K), "float",
                [k \in {0, 2, 4, 6} \X {0, 3} \X {5, 7} |->
                    Num(27315 + 500 * k[1] + k[2])]),
        DataVar(N_tp, <<N_time, N_lat, N_lon>>, Units(U_mm), "float",
                [k \in {0, 2, 4, 6} \X {0, 3} \X {5, 7} |->
                    IF k[2] = 0 THEN Num(0)
                    ELSE IF k[1] = 2 THEN NaN ELSE Num(100 * k[1])]),
        DataVar(N_sst, <<N_time, N_lat, N_lon>>, Units(U_K), "float",
                [k \in {0, 2, 4, 6} \X {0, 3} \X {5, 7} |->
                    IF k[2] = 0 THEN NaN ELSE Num(28000 + k[1])]),
        DataVar(N_lsm, <<N_lat, N_lon>>, NoUnits, "int",
                [k \in {0, 3} \X {5, 7} |->
                    IF k[1] = 0 THEN Num(0) ELSE Num(100)]) >>]

\* zonal means: a latitude axis and no longitude axis
DsZonal ==
    [id |-> "zonal",
     coords |-> << Coord(N_DATE, "time", TRUE, DailyAxis),
                   Coord(N_level, "num", TRUE, <<1, 2>>),
                   Coord(N_lat, "num", TRUE, <<0, 3>>) >>,
     vars |-> <<
        DataVar(<<"u">>, <<N_DATE, N_level, N_lat>>, Units(U_m_s), "float",
                [k \in {0, 2, 4, 6} \X {1, 2} \X {0, 3} |->
                    Num(100 * k[2] + k[1])]) >>]

\* soil water per level in kg m-2, and a text note per level: "ok", and a
\* note with a BEL character and a character beyond the basic plane
DsStatic ==
    [id |-> "static",
     coords |-> << Coord(N_level, "num", TRUE, <<1, 2>>),
                   Coord(N_lat, "num", TRUE, <<0, 3>>),
                   Coord(N_lon, "num", TRUE, <<5, 7>>) >>,
     vars |-> <<
        DataVar(N_soil, <<N_level, N_lat, N_lon>>, Units(U_kg_m2), "float",
                [k \in {1, 2} \X {0, 3} \X {5, 7} |-> Num(30000 + 100 * k[1])]),
        DataVar(N_note, <<N_level>>, NoUnits, "str",
                [k \in {<<1>>, <<2>>} |->
                    IF k[1] = 1 THEN Str(<<111, 107>>)
                    ELSE Str(<<110, 7, 111, 128512>>)]) >>]

\* a GRIB forecast as cfgrib decodes it: latitude stored north to south,
\* valid_time a coordinate that is not a dimension
DsForecast ==
    [id |-> "forecast",
     coords |-> << Coord(N_time, "time", TRUE, DailyAxis),
                   Coord(N_Latitude, "num", TRUE, <<3, 0>>),
                   Coord(N_Longitude, "num", TRUE, <<5, 7>>),
                   Along(Coord(N_valid_time, "time", FALSE, <<1, 3, 5, 7>>),
                         N_time) >>,
     vars |-> <<
        DataVar(<<"u","1","0">>, <<N_time, N_Latitude, N_Longitude>>, Units(U_m_s), "float",
                [k \in {0, 2, 4, 6} \X {0, 3} \X {5, 7} |->
                    Num(100 * k[1] + k[2])]) >>]

\* "relative_time" holds the substring "lat"
DsDrift ==
    [id |-> "drift",
     coords |-> << Coord(N_lat, "num", TRUE, <<0, 2>>),
                   Coord(N_lon, "num", TRUE, <<5, 7>>),
                   Coord(N_relative_time, "time", TRUE, DailyAxis) >>,
     vars |-> <<
        DataVar(<<"s","l","a">>, <<N_relative_time, N_lat, N_lon>>, NoUnits, "float",
                [k \in {0, 2, 4, 6} \X {0, 2} \X {5, 7} |-> Num(k[1])]) >>]

\* a dimension coordinate of station names (strings)
DsStations ==
    [id |-> "stations",
     coords |-> << Coord(N_station, "str", TRUE, <<1, 2>>),
                   Coord(N_time, "time", TRUE, DailyAxis),
                   Coord(N_lat, "num", TRUE, <<0, 3>>),
                   Coord(N_lon, "num", TRUE, <<5, 7>>) >>,
     vars |-> <<
        DataVar(<<"o","b","s">>, <<N_station, N_time, N_lat, N_lon>>, NoUnits, "float",
                [k \in {1, 2} \X {0, 2, 4, 6} \X {0, 3} \X {5, 7} |->
                    Num(1000 * k[1] + 100 * k[2])]) >>]

CoordNames(ds) == [i \in 1..Len(ds.coords) |-> ds.coords[i].name]

\* ds[name] for a name that is a coordinate of ds
CoordOf(coords, name) ==
    coords[CHOOSE i \in 1..Len(coords) : coords[i].name = name]

(***************************************************************************)
(* Uploaded files.                                                         *)
(***************************************************************************)
X_nc == <<"n","c">>
X_NC == <<"N","C">>
X_grib == <<"g","r","i","b">>
X_grb == <<"g","r","b">>
X_csv == <<"c","s","v">>

\* part: 'file' is in request.files;  stem = "" and no dot: the empty filename
File(stem, dot, ext, corrupt, ds) ==
    [part |-> TRUE, stem |-> stem, dot |-> dot, ext |-> ext,
     corrupt |-> corrupt, ds |-> ds]

NoFilePart ==
    [part |-> FALSE, stem |-> "", dot |-> FALSE, ext |-> << >>,
     corrupt |-> FALSE, ds |-> NoDataset]

EmptyFilename == File("", FALSE, << >>, FALSE, NoDataset)

Uploads ==
    { NoFilePart, EmptyFilename,
      File("era", TRUE, X_nc, FALSE, DsEra),
      File("zonal", TRUE, X_nc, FALSE, DsZonal),
      File("static", TRUE, X_NC, FALSE, DsStatic),
      File("forecast", TRUE, X_grib, FALSE, DsForecast),
      File("drift", TRUE, X_nc, FALSE, DsDrift),
      File("stations", TRUE, X_nc, FALSE, DsStations),
      File("broken", TRUE, X_grb, TRUE, NoDataset),
      File("notes", TRUE, X_csv, FALSE, NoDataset),
      File("README", FALSE, << >>, FALSE, NoDataset) }

NoFilename == [stem |-> "", ext |-> << >>]

\* any file with an extension
AllowedFileAnyExtension(f) == f.dot

\* allowed_file
allowed_file(f) == f.dot /\ Lower(f.ext) \in {X_nc, X_grib, X_grb}

(***************************************************************************)
(* Instants of a request (pd.Timestamp): naive, or timezone-aware with a   *)
(* UTC offset.  t is the wall-clock reading in ticks.                      *)
(***************************************************************************)
NoDate == [given |-> FALSE, t |-> 0, aware |-> FALSE, off |-> 0]

Naive(t) == [given |-> TRUE, t |-> t, aware |-> FALSE, off |-> 0]

Aware(t, off) == [given |-> TRUE, t |-> t, aware |-> TRUE, off |-> off]

\* Timestamp.tz_convert(None): to UTC, then the timezone is dropped
tz_convert_none(ts) == Naive(ts.t - ts.off)

\* Timestamp.tz_localize(tz): the same wall-clock reading, in tz
tz_localize(ts, off) == Aware(ts.t, off)

\* ts + pd.Timedelta(days=n)
PlusDays(ts, n) == [ts EXCEPT !.t = ts.t + n * Day]

Dates ==
    {NoDate} \cup {Naive(t) : t \in 0..MaxTick}
             \cup {Aware(MaxTick, 1)}

(***************************************************************************)
(* Requests of the two query handlers (the JSON body).                     *)
(***************************************************************************)
Req(hasLat, lat, hasLon, lon, start, end) ==
    [body |-> TRUE, hasLat |-> hasLat, lat |-> lat, hasLon |-> hasLon,
     lon |-> lon, startDate |-> start, endDate |-> end,
     filetype |-> "(absent)", keep_constant |-> FALSE]

\* no JSON body: request.get_json() gives None
NoBody ==
    [body |-> FALSE, hasLat |-> FALSE, lat |-> 0, hasLon |-> FALSE,
     lon |-> 0, startDate |-> NoDate, endDate |-> NoDate,
     filetype |-> "(absent)", keep_constant |-> FALSE]

LatQ == (0 - 1)..MaxLatQ

LonQ == 6..MaxLonQ

Requests ==
    {NoBody}
    \cup {Req(TRUE, la, TRUE, lo, s, e) :
              la \in LatQ, lo \in LonQ, s \in Dates, e \in Dates}
    \cup {Req(FALSE, 0, TRUE, 6, s, e) : s \in Dates, e \in Dates}
    \cup {Req(TRUE, 0, FALSE, 0, s, e) : s \in Dates, e \in Dates}

\* the export's own keys: "filetype" and "keep_constant"
Filetypes == {"csv", "xlsx", "txt", "docx", "pdf"}

\* the windows of the requests that name a format: none, a start alone, a
\* window that holds a single step, a window of several steps
FormatWindows ==
    { <<NoDate, NoDate>>, <<Naive(0), NoDate>>,
      <<Naive(DailyAxis[Len(DailyAxis)]), Naive(DailyAxis[Len(DailyAxis)])>>,
      <<Naive(0), Naive(MaxTick)>> }

ExportRequests ==
    Requests
    \cup {[Req(TRUE, la, TRUE, 6, w[1], w[2])
              EXCEPT !.filetype = ft, !.keep_constant = k] :
              la \in {0, MaxLatQ}, w \in FormatWindows,
              ft \in Filetypes, k \in BOOLEAN}

\* data.get("filetype", "csv")
FiletypeOf(req) == IF req.filetype = "(absent)" THEN "csv" ELSE req.filetype

(***************************************************************************)
(* Label-based selection of the dataset library, as the handlers call it.  *)
(***************************************************************************)
Abs(x) == IF x < 0 THEN 0 - x ELSE x

Increasing(vals) == \A i \in 1..(Len(vals) - 1) : vals[i] < vals[i + 1]

Decreasing(vals) == \A i \in 1..(Len(vals) - 1) : vals[i] > vals[i + 1]

\* .sel({name: slice(lo, hi)}) on an increasing index: both ends inclusive
SliceVals(vals, lo, hi) ==
    LET first == Cardinality({i \in 1..Len(vals) : vals[i] < lo}) + 1
        last == Cardinality({i \in 1..Len(vals) : vals[i] <= hi})
    IN  SubSeq(vals, first, last)

\* a match that takes the largest value not above q (the smallest if none)
NearestPad(vals, q) ==
    IF \E v \in Range(vals) : v <= q
    THEN CHOOSE v \in Range(vals) :
             v <= q /\ \A w \in Range(vals) : w <= q => w <= v
    ELSE CHOOSE v \in Range(vals) : \A w \in Range(vals) : v <= w

\* .sel({name: q}, method='nearest') on a monotonic index: the value at the
\* smallest distance, the larger one of two at the same distance
Nearest(vals, q) ==
    CHOOSE v \in Range(vals) :
        \A w \in Range(vals) :
            /\ Abs(v - q) <= Abs(w - q)
            /\ Abs(v - q) = Abs(w - q) => v >= w

\* the index .sel() needs: a dimension coordinate
Selectable(c) == c.dim

\* a numeric label can be matched against the coordinate
NearestOk(c) ==
    Selectable(c) /\ c.kind = "num" /\ (Increasing(c.vals) \/ Decreasing(c.vals))

HasCoord(coords, name) == \E i \in 1..Len(coords) : coords[i].name = name

\* .sel({name: q}, method='nearest') finds a value and does not raise
CanSelect(coords, name) ==
    HasCoord(coords, name) /\ NearestOk(CoordOf(coords, name))

\* a timestamp slice can be taken along the coordinate
SliceOk(c) == Selectable(c) /\ c.kind = "time" /\ Increasing(c.vals)

\* the dataset with dimension `name` restricted to lo..hi: the coordinate
\* itself, and every coordinate whose values run along it
SelSlice(coords, name, lo, hi) ==
    LET axis == CoordOf(coords, name).vals
        first == Cardinality({i \in 1..Len(axis) : axis[i] < lo}) + 1
        last == Cardinality({i \in 1..Len(axis) : axis[i] <= hi})
    IN  [i \in 1..Len(coords) |->
            IF coords[i].name = name
            THEN [coords[i] EXCEPT !.vals = SliceVals(coords[i].vals, lo, hi)]
            ELSE IF coords[i].along = name
            THEN [coords[i] EXCEPT !.vals = SubSeq(coords[i].vals, first, last)]
            ELSE coords[i]]

(***************************************************************************)
(* The values of the variables at the selected point.                      *)
(***************************************************************************)
\* 273.15 in hundredths
Kelvin0 == 27315

S_k == <<"k">>

PosOf(seq, x) == CHOOSE i \in 1..Len(seq) : seq[i] = x

\* every combination of one value per axis, the last axis varying fastest
RECURSIVE Product(_)
Product(axes) ==
    IF axes = << >> THEN << << >> >>
    ELSE LET h == Head(axes)
             rest == Product(Tail(axes))
         IN  [n \in 1..(Len(h) * Len(rest)) |->
                 <<h[((n - 1) \div Len(rest)) + 1]>> \o rest[((n - 1) % Len(rest)) + 1]]

\* the dimensions left after the point is selected: of a list of dimension
\* names, those that are not the latitude or the longitude role
RestDims(dims, r) ==
    LET Rest(d) == d # r.lat /\ d # r.lon
    IN  SelectSeq(dims, Rest)

\* ds.dims: the names of the dimension coordinates
DimNames(coords) ==
    LET IsDim(c) == c.dim
        dimc == SelectSeq(coords, IsDim)
    IN  [i \in 1..Len(dimc) |-> dimc[i].name]

\* the value of variable v where the remaining dimensions `rest` have the
\* values `row` and the selected point is (lat, lon)
ValueAt(v, rest, row, r, lat, lon) ==
    v.data[[i \in 1..Len(v.dims) |->
                IF v.dims[i] = r.lat THEN lat
                ELSE IF v.dims[i] = r.lon THEN lon
                ELSE row[PosOf(rest, v.dims[i])]]]

\* point[var_name].values, flattened
PointValues(v, view, r, lat, lon) ==
    LET rest == RestDims(v.dims, r)
        rows == Product([i \in 1..Len(rest) |-> CoordOf(view, rest[i]).vals])
    IN  [n \in 1..Len(rows) |-> ValueAt(v, rest, rows[n], r, lat, lon)]

\* a unit test that forgets to lower-case
IsKelvinCaseSensitive(units) == units.has /\ Contains(S_k, units.text)

\* 'k' in attrs.get('units', '').lower()
IsKelvin(units) == units.has /\ Contains(S_k, Lower(units.text))

\* value - 273.15 (NaN stays NaN)
MinusKelvin0(cell) == IF cell.kind = "num" THEN Num(cell.v - Kelvin0) ELSE cell

\* var_data.isnull().all()
AllNull(cells) == \A i \in 1..Len(cells) : cells[i].kind = "nan"

\* get_timeseries: the loop over ds.data_vars that fills charts.  An entry
\* holds the trace of the figure: x, y and the title of the y axis.
RECURSIVE ChartLoop(_, _, _, _, _, _, _)
ChartLoop(dvars, i, view, r, lat, lon, charts) ==
    IF i > Len(dvars) THEN charts
    ELSE LET v == dvars[i]
             stored == PointValues(v, view, r, lat, lon)
             kelvin == IsKelvin(v.units)
             values == IF kelvin
                       THEN [n \in 1..Len(stored) |-> MinusKelvin0(stored[n])]
                       ELSE stored
             units == IF kelvin THEN Units(<<"C">>) ELSE v.units
             times == CoordOf(view, r.time).vals
             entry == [name |-> v.name, x |-> times, y |-> values,
                       yaxis_title |-> IF units.has THEN Encode(units.text) ELSE T_Value]
         IN  ChartLoop(dvars, i + 1, view, r, lat, lon,
                 IF Len(stored) = 0 \/ AllNull(stored) THEN charts
                 ELSE IF r.time # NoName /\ r.time \in Range(v.dims)
                         /\ Len(times) # 0 /\ Len(values) # 0
                      THEN Append(charts, entry)
                 ELSE charts)

Charts(dvars, view, r, lat, lon) == ChartLoop(dvars, 1, view, r, lat, lon, << >>)

(***************************************************************************)
(* The export table: the data frame of the selected point, its unit        *)
(* handling, the removal of empty and of constant columns, and the cell    *)
(* values that go to the writer of each format.                            *)
(***************************************************************************)
\* str() of a cell of a column of the given dtype; a timestamp reads as
\* the day and the hour of its tick
CellStr(cell, dtype) ==
    LET TimeStr(t) == IntStr(t \div Day) \o <<32>> \o
                      (IF t % Day = 0 THEN <<48, 48>> ELSE <<49, 50>>)
    IN  IF cell.kind = "nan" THEN Encode(<<"n","a","n">>)
        ELSE IF cell.kind = "str" THEN cell.s
        ELSE IF cell.kind = "time" THEN TimeStr(cell.v)
        ELSE IF dtype = "int" THEN IntStr(cell.v \div 100)
        ELSE FloatStr(cell.v)

\* point.to_dataframe().reset_index(): one row per combination of the
\* remaining dimensions; the index columns, then the other coordinates
\* (the selected latitude and longitude among them), then the variables
ToDataFrame(dvars, view, r, lat, lon) ==
    LET dims == RestDims(DimNames(view), r)
        rows == Product([i \in 1..Len(dims) |-> CoordOf(view, dims[i]).vals])
        CoordCell(c, val) ==
            IF c.kind = "num" THEN Num(100 * val)
            ELSE IF c.kind = "time" THEN Time(val)
            ELSE Str(<<64 + val>>)
        CoordDtype(c) ==
            IF c.kind = "num" THEN "float"
            ELSE IF c.kind = "time" THEN "time" ELSE "str"
        ValueOf(c, row) ==
            IF c.along = r.lat THEN c.vals[PosOf(CoordOf(view, r.lat).vals, lat)]
            ELSE IF c.along = r.lon THEN c.vals[PosOf(CoordOf(view, r.lon).vals, lon)]
            ELSE c.vals[PosOf(CoordOf(view, c.along).vals, row[PosOf(dims, c.along)])]
        CoordColumn(c) ==
            [name |-> c.name, dtype |-> CoordDtype(c),
             cells |-> [n \in 1..Len(rows) |-> CoordCell(c, ValueOf(c, rows[n]))]]
        VarColumn(v) ==
            [name |-> v.name, dtype |-> v.dtype,
             cells |-> [n \in 1..Len(rows) |-> ValueAt(v, dims, rows[n], r, lat, lon)]]
        IsOther(c) == c.name \notin Range(dims)
        others == SelectSeq(view, IsOther)
    IN  [i \in 1..Len(dims) |-> CoordColumn(CoordOf(view, dims[i]))]
        \o [i \in 1..Len(others) |-> CoordColumn(others[i])]
        \o [i \in 1..Len(dvars) |-> VarColumn(dvars[i])]

\* "Handle units": df[var_name] - 273.15 for every variable whose units hold 'k'
ExportUnits(df, dvars) ==
    LET Kelvin(name) ==
            \E i \in 1..Len(dvars) : dvars[i].name = name /\ IsKelvin(dvars[i].units)
    IN  [j \in 1..Len(df) |->
            IF Kelvin(df[j].name)
            THEN [df[j] EXCEPT !.dtype = "float",
                               !.cells = [n \in 1..Len(df[j].cells) |->
                                             MinusKelvin0(df[j].cells[n])]]
            ELSE df[j]]

\* the subtraction raises on a column of strings
ExportUnitsRaises(dvars) ==
    \E i \in 1..Len(dvars) : IsKelvin(dvars[i].units) /\ dvars[i].dtype = "str"

\* df.dropna(axis=1, how="all")
DropNa(df) ==
    LET Keep(c) == ~AllNull(c.cells)
    IN  SelectSeq(df, Keep)

\* df[col].nunique(dropna=False) == 1
IsConstant(c) == Cardinality(Range(c.cells)) = 1

\* dropped_columns: f"{col}({constant_value})" of every constant column
DroppedColumns(df, keep_constant) ==
    LET DroppedEntry(c) ==
            Encode(c.name) \o <<40>> \o
            (IF AllNull(c.cells) THEN T_NaN ELSE CellStr(c.cells[1], c.dtype))
            \o <<41>>
        constant == SelectSeq(df, IsConstant)
    IN  IF keep_constant THEN << >>
        ELSE [i \in 1..Len(constant) |-> DroppedEntry(constant[i])]

\* a removal that does not ask for the flag
DropConstantAlways(df, keep_constant) ==
    LET Keep(c) == ~IsConstant(c)
    IN  SelectSeq(df, Keep)

\* df.drop(columns=constant_cols), unless keep_constant
DropConstant(df, keep_constant) ==
    IF keep_constant THEN df
    ELSE LET Keep(c) == ~IsConstant(c)
         IN  SelectSeq(df, Keep)

\* download_timeseries_csv, from the selected point to the table it exports
ExportTable(dvars, view, r, lat, lon, keep_constant) ==
    LET df0 == ExportUnits(ToDataFrame(dvars, view, r, lat, lon), dvars)
        df1 == DropNa(df0)
        df2 == DropConstant(df1, keep_constant)
        df3 == DropConstant(DropNa(df2), keep_constant)
    IN  [frame |-> df0, table |-> df3,
         dropped |-> DroppedColumns(df1, keep_constant)]

\* sanitize_text: "NaN" for a missing value, else
\* re.sub(r'[^\x20-\x7E\u00A0-\uFFFF]', '', str(text))
sanitize_text(x) ==
    LET Kept(c) == (32 <= c /\ c <= 126) \/ (160 <= c /\ c <= 65535)
    IN  IF x.kind = "nan" THEN T_NaN ELSE SelectSeq(CellStr(x, "float"), Kept)

\* ws.append raises IllegalCharacterError: a string cell holds a character
\* the workbook library refuses
WorkbookRaises(table) ==
    LET IllegalInWorkbook(text) ==
            \E i \in 1..Len(text) :
                \/ text[i] <= 8
                \/ text[i] \in {11, 12}
                \/ (14 <= text[i] /\ text[i] <= 31)
    IN  \E j \in 1..Len(table) :
            \/ IllegalInWorkbook(Encode(table[j].name))
            \/ \E n \in 1..Len(table[j].cells) :
                  /\ table[j].cells[n].kind = "str"
                  /\ IllegalInWorkbook(table[j].cells[n].s)

\* the header and the cells that go to the writer of the format: df.to_csv
\* writes a missing value as the empty string, df.to_string as NaN, the
\* workbook gets the values as they are, the document gets the text of
\* df.fillna("NaN").astype(str), sanitized
Handed(table, filetype) ==
    [j \in 1..Len(table) |->
        LET c == table[j]
            FillnaAstypeStr(cell, dtype) ==
                IF cell.kind = "nan" THEN Str(T_NaN) ELSE Str(CellStr(cell, dtype))
        IN  IF filetype = "docx"
            THEN [name |-> sanitize_text(Str(Encode(c.name))),
                  cells |-> [n \in 1..Len(c.cells) |->
                      Str(sanitize_text(FillnaAstypeStr(c.cells[n], c.dtype)))]]
            ELSE [name |-> Encode(c.name),
                  cells |-> [n \in 1..Len(c.cells) |->
                      IF c.cells[n].kind # "nan" THEN c.cells[n]
                      ELSE IF filetype = "csv" THEN Str(<< >>)
                      ELSE IF filetype = "txt" THEN Str(T_NaN)
                      ELSE c.cells[n]]]]

(***************************************************************************)
(* Responses.  status "ok": the success payload; "error": the handler's    *)
(* own failure answer with its message; "fault": an exception that leaves  *)
(* the handler uncaught.  A query's response carries the values the        *)
(* handler computed it from: the roles, the dataset view after slicing,    *)
(* the bounds handed to slice() and the resolved point; a time-series      *)
(* answer its charts; an export the data frame after the unit handling,    *)
(* the table it exports, the dropped-columns list and the cells handed to  *)
(* the writer of the format.                                               *)
(***************************************************************************)
\* no "Date Range" line in the header of an export
NoDateRange == [shown |-> FALSE, start |-> 0, end |-> 0]

\* Timestamp.date(): the day of the wall-clock reading
DateOf(ts) == ts.t \div Day

\* f"Date Range: {start.date()} -> {end.date()}"
DateRange(start, end) == [shown |-> TRUE, start |-> DateOf(start), end |-> DateOf(end)]

Response(op, status, error, req, src, r, view, lo, hi, lat, lon) ==
    [op |-> op, status |-> status, error |-> error, req |-> req, src |-> src,
     roles |-> r, view |-> view, lo |-> lo, hi |-> hi, lat |-> lat, lon |-> lon,
     charts |-> << >>, frame |-> << >>, table |-> << >>, dropped |-> << >>,
     handed |-> << >>, date_range |-> NoDateRange,
     file |-> NoFilename, saved |-> FALSE, decoded |-> FALSE]

NoResponse ==
    Response("none", "none", "", NoBody, "", NoRoles, << >>, NoDate, NoDate, 0, 0)

\* the answer to an upload of file f; saved: file.save(filepath) was
\* reached, decoded: xr.open_dataset was called on the saved file
UploadResponse(status, error, f, saved, decoded) ==
    [Response("upload", status, error, NoBody, "", NoRoles, << >>, NoDate, NoDate, 0, 0)
        EXCEPT !.file = [stem |-> f.stem, ext |-> f.ext],
               !.saved = saved, !.decoded = decoded]

E_NoDataset == "No dataset loaded"
E_NoCoords == "Coordinates not provided"
E_NoLatLon == "Lat/Lon not found in dataset"
E_NoData == "No data in selected date range"
E_Filetype == "Unsupported filetype"
E_Docx == "Error generating DOCX file"

\* get_timeseries: "Match tz-awareness" of one bound with the time axis
MatchTz(axis, ts) ==
    IF axis.tzaware
    THEN IF ~ts.aware THEN tz_localize(ts, axis.tzoff) ELSE ts
    ELSE IF ts.aware THEN tz_convert_none(ts) ELSE ts

\* the reading of a bound on the scale of the axis values (UTC ticks for an
\* aware axis, wall-clock ticks for a naive one)
AxisValue(axis, ts) ==
    IF ts.aware THEN ts.t - ts.off
    ELSE IF axis.tzaware THEN ts.t - axis.tzoff
    ELSE ts.t

\* a condition that forgets to ask for the end bound
SlicingStartOnly(time_var, start, end) ==
    time_var # NoName /\ start.given

\* get_timeseries slices when a time coordinate and both bounds are there
Slicing(time_var, start, end) ==
    time_var # NoName /\ start.given /\ end.given

\* the same condition in download_timeseries_csv
ExportSlicing(time_var, start, end) ==
    time_var # NoName /\ start.given /\ end.given

\* a check that fails only when both are missing
MissingSpatialBoth(r) == r.lat = NoName /\ r.lon = NoName

\* get_timeseries: the check on lat_var and lon_var
MissingSpatial(r) == r.lat = NoName \/ r.lon = NoName

\* download_timeseries_csv: the same check
ExportMissingSpatial(r) == r.lat = NoName \/ r.lon = NoName

\* get_timeseries, from the dataset it read from the slot
TimeseriesResult(ds, req) ==
    LET Out(status, error, r, view, lo, hi, lat, lon) ==
            Response("timeseries", status, error, req, ds.id, r, view, lo, hi, lat, lon)
        r == DetectCoords(CoordNames(ds))
        axis == CoordOf(ds.coords, r.time)
        slicing == Slicing(r.time, req.startDate, req.endDate)
        start == IF slicing THEN MatchTz(axis, req.startDate) ELSE req.startDate
        end == IF slicing THEN MatchTz(axis, req.endDate) ELSE req.endDate
        view == IF slicing
                THEN SelSlice(ds.coords, r.time, AxisValue(axis, start), AxisValue(axis, end))
                ELSE ds.coords
        lo == IF slicing THEN start ELSE NoDate
        hi == IF slicing THEN end ELSE NoDate
        latc == CoordOf(view, r.lat)
        lonc == CoordOf(view, r.lon)
    IN  IF ds = NoDataset
        THEN Out("error", E_NoDataset, NoRoles, << >>, NoDate, NoDate, 0, 0)
        ELSE IF ~req.body
        THEN Out("fault", "", NoRoles, << >>, NoDate, NoDate, 0, 0)
        ELSE IF ~req.hasLat \/ ~req.hasLon
        THEN Out("error", E_NoCoords, NoRoles, << >>, NoDate, NoDate, 0, 0)
        ELSE IF MissingSpatial(r)
        THEN Out("error", E_NoLatLon, r, << >>, NoDate, NoDate, 0, 0)
        ELSE IF slicing /\ ~SliceOk(axis)
        THEN Out("fault", "", r, << >>, lo, hi, 0, 0)
        ELSE IF slicing /\ Len(CoordOf(view, r.time).vals) = 0
        THEN Out("error", E_NoData, r, view, lo, hi, 0, 0)
        ELSE IF ~CanSelect(view, r.lat) \/ ~CanSelect(view, r.lon)
        THEN Out("fault", "", r, view, lo, hi, 0, 0)
        ELSE LET lat == Nearest(latc.vals, req.lat)
                 lon == Nearest(lonc.vals, req.lon)
             IN  [Out("ok", "", r, view, lo, hi, lat, lon)
                     EXCEPT !.charts = Charts(ds.vars, view, r, lat, lon)]

\* download_timeseries_csv, from the dataset it read from the slot.
\* casts: the installed index library casts a bound whose
\* timezone-awareness differs from the axis (older releases, with a warning)
\* instead of raising TypeError (newer releases).  docFault: building or
\* saving the document raises (the handler also writes a copy of it to the
\* working directory).
ExportResult(ds, req, casts, docFault) ==
    LET Out(status, error, r, view, lo, hi, lat, lon) ==
            Response("export", status, error, req, ds.id, r, view, lo, hi, lat, lon)
        start == req.startDate
        end == IF req.endDate.given THEN PlusDays(req.endDate, 1) ELSE NoDate
        r == ExportDetectCoords(CoordNames(ds))
        axis == CoordOf(ds.coords, r.time)
        slicing == ExportSlicing(r.time, start, end)
        mismatch == start.aware # axis.tzaware \/ end.aware # axis.tzaware
        view == IF slicing
                THEN SelSlice(ds.coords, r.time, AxisValue(axis, start), AxisValue(axis, end))
                ELSE ds.coords
        lo == IF slicing THEN start ELSE NoDate
        hi == IF slicing THEN end ELSE NoDate
        latc == CoordOf(view, r.lat)
        lonc == CoordOf(view, r.lon)
    IN  IF ds = NoDataset
        THEN Out("error", E_NoDataset, NoRoles, << >>, NoDate, NoDate, 0, 0)
        ELSE IF ~req.body
        THEN Out("fault", "", NoRoles, << >>, NoDate, NoDate, 0, 0)
        ELSE IF ExportMissingSpatial(r)
        THEN Out("error", E_NoLatLon, r, << >>, NoDate, NoDate, 0, 0)
        ELSE IF slicing /\ (~SliceOk(axis) \/ (mismatch /\ ~casts))
        THEN Out("fault", "", r, << >>, lo, hi, 0, 0)
        ELSE IF slicing /\ Len(CoordOf(view, r.time).vals) = 0
        THEN Out("error", E_NoData, r, view, lo, hi, 0, 0)
        ELSE IF ~req.hasLat \/ ~req.hasLon
        THEN Out("fault", "", r, view, lo, hi, 0, 0)
        ELSE IF ~CanSelect(view, r.lat) \/ ~CanSelect(view, r.lon)
        THEN Out("fault", "", r, view, lo, hi, 0, 0)
        ELSE LET lat == Nearest(latc.vals, req.lat)
                 lon == Nearest(lonc.vals, req.lon)
                 filetype == FiletypeOf(req)
                 t == ExportTable(ds.vars, view, r, lat, lon, req.keep_constant)
                 With(out) == [out EXCEPT !.frame = t.frame, !.table = t.table,
                                          !.dropped = t.dropped]
                 \* end = end - pd.Timedelta(days=1), in the slicing branch
                 shownEnd == IF slicing THEN PlusDays(end, 0 - 1) ELSE end
                 header == IF start.given /\ end.given
                           THEN DateRange(start, shownEnd) ELSE NoDateRange
             IN  IF RestDims(DimNames(view), r) = << >> \/ ExportUnitsRaises(ds.vars)
                 THEN Out("fault", "", r, view, lo, hi, lat, lon)
                 ELSE IF filetype \notin {"csv", "xlsx", "txt", "docx"}
                 THEN With(Out("error", E_Filetype, r, view, lo, hi, lat, lon))
                 ELSE IF filetype = "xlsx" /\ WorkbookRaises(t.table)
                 THEN With(Out("fault", "", r, view, lo, hi, lat, lon))
                 ELSE IF filetype = "docx" /\ docFault
                 THEN With(Out("error", E_Docx, r, view, lo, hi, lat, lon))
                 ELSE [With(Out("ok", "", r, view, lo, hi, lat, lon))
                          EXCEPT !.handed = Handed(t.table, filetype),
                                 !.date_range = header]

(***************************************************************************)
(* Upload.                                                                 *)
(***************************************************************************)
\* extract_file_info raises after the decode: the min of a time-like
\* coordinate of strings, or float() of the range of a dimension coordinate
\* that holds strings
InfoRaises(ds) ==
    \/ /\ InfoTimeVar(CoordNames(ds)) # NoName
       /\ CoordOf(ds.coords, InfoTimeVar(CoordNames(ds))).kind = "str"
    \/ \E i \in 1..Len(ds.coords) : ds.coords[i].dim /\ ds.coords[i].kind = "str"

\* create_coverage_map raises: np.mean over values that are not numbers
MapRaises(ds) ==
    LET r == MapDetectCoords(CoordNames(ds))
    IN  /\ r.lat # NoName
        /\ r.lon # NoName
        /\ \/ CoordOf(ds.coords, r.lat).kind # "num"
           \/ CoordOf(ds.coords, r.lon).kind # "num"

\* extract_file_info: the slot after it, and whether it reports success
extract_file_info(slot, f) ==
    IF Lower(f.ext) \notin {X_nc, X_grib, X_grb}
    THEN [slot |-> slot, success |-> FALSE, decoded |-> FALSE]
    ELSE IF f.corrupt
    THEN [slot |-> slot, success |-> FALSE, decoded |-> TRUE]
    ELSE [slot |-> [slot EXCEPT !.ds = f.ds], success |-> ~InfoRaises(f.ds),
          decoded |-> TRUE]

\* upload_file: the slot after it and its response.  ioFault: the second
\* open of the saved file raises.
upload_file(slot, f, ioFault) ==
    LET info == extract_file_info(slot, f)
        loaded == [ds |-> f.ds, filename |-> [stem |-> f.stem, ext |-> f.ext]]
    IN  IF ~f.part
        THEN [slot |-> slot,
              resp |-> UploadResponse("error", "No file provided", f, FALSE, FALSE)]
        ELSE IF f.stem = "" /\ ~f.dot
        THEN [slot |-> slot,
              resp |-> UploadResponse("error", "No file selected", f, FALSE, FALSE)]
        ELSE IF ~allowed_file(f)
        THEN [slot |-> slot,
              resp |-> UploadResponse("error", "Invalid file type. Upload .nc only",
                                      f, FALSE, FALSE)]
        ELSE IF ~info.success
        THEN [slot |-> info.slot,
              resp |-> UploadResponse("error", "str(e)", f, TRUE, info.decoded)]
        ELSE IF ioFault
        THEN [slot |-> info.slot, resp |-> UploadResponse("error", "str(e)", f, TRUE, TRUE)]
        ELSE IF MapRaises(f.ds)
        THEN [slot |-> loaded, resp |-> UploadResponse("error", "str(e)", f, TRUE, TRUE)]
        ELSE [slot |-> loaded, resp |-> UploadResponse("ok", "", f, TRUE, TRUE)]

(***************************************************************************)
(* What a query leaves in the slot.  The export writes the unit "C" into   *)
(* the attrs of the variables of the selected point; the selection holds   *)
(* its own copy of every variable's attrs, so the write ends there.        *)
(***************************************************************************)
\* point[var_name].attrs["units"] = "C", for every variable it is done for
UnitsWritten(dvars) ==
    [i \in 1..Len(dvars) |->
        IF IsKelvin(dvars[i].units)
        THEN [dvars[i] EXCEPT !.units = Units(<<"C">>)]
        ELSE dvars[i]]

\* a selection whose variables share their attrs with the resident dataset
SelSharingAttrs(ds, written) == [ds EXCEPT !.vars = written]

\* ds.sel(...): the resident dataset after attrs of the selection are written
SelCopyingAttrs(ds, written) == ds

\* the resident dataset after download_timeseries_csv answered `out`
ExportLeaves(ds, out) ==
    IF out.frame # << >> THEN SelCopyingAttrs(ds, UnitsWritten(ds.vars)) ELSE ds

\* the resident dataset after get_timeseries: the converted values and
\* their unit are a new array (var_data - 273.15), nothing else is written
TimeseriesLeaves(ds, out) == ds

(***************************************************************************)
(* The server: one action per request handler, one request at a time.  A   *)
(* handler leaves its response in resp, and the next request is taken once *)
(* that response has gone out to the client.  lastOk is history: the id of *)
(* the dataset of the most recent upload that returned success.            *)
(***************************************************************************)
NoQuery == [pc |-> "idle", op |-> "", req |-> NoBody, ds |-> NoDataset,
            began |-> NoDataset, seen |-> NoDataset]

NoUpload == [pc |-> "idle", f |-> NoFilePart]

Init ==
    /\ current_dataset = [ds |-> NoDataset, filename |-> NoFilename]
    /\ resp = NoResponse
    /\ lastOk = ""
    /\ names = << >>
    /\ roles = NoRoles
    /\ inflight = NoQuery
    /\ uploading = NoUpload

Upload ==
    \E f \in Uploads, ioFault \in BOOLEAN :
        LET u == upload_file(current_dataset, f, ioFault)
        IN  /\ resp = NoResponse
            /\ current_dataset' = u.slot
            /\ resp' = u.resp
            /\ lastOk' = IF u.resp.status = "ok" THEN f.ds.id ELSE lastOk
            /\ UNCHANGED <<names, roles, inflight, uploading>>

GetTimeseries ==
    \E req \in Requests :
        LET out == TimeseriesResult(current_dataset.ds, req)
        IN  /\ resp = NoResponse
            /\ resp' = out
            /\ current_dataset' =
                   [current_dataset EXCEPT !.ds = TimeseriesLeaves(current_dataset.ds, out)]
            /\ UNCHANGED <<lastOk, names, roles, inflight, uploading>>

\* the library's choices that the request can meet
CastChoices(req) ==
    IF req.startDate.aware \/ req.endDate.aware THEN BOOLEAN ELSE {FALSE}

DocFaultChoices(req) == IF req.filetype = "docx" THEN BOOLEAN ELSE {FALSE}

DownloadTimeseries ==
    \E req \in ExportRequests :
        \E casts \in CastChoices(req), docFault \in DocFaultChoices(req) :
            LET out == ExportResult(current_dataset.ds, req, casts, docFault)
            IN  /\ resp = NoResponse
                /\ resp' = out
                /\ current_dataset' =
                       [current_dataset EXCEPT !.ds = ExportLeaves(current_dataset.ds, out)]
                /\ UNCHANGED <<lastOk, names, roles, inflight, uploading>>

\* the response goes out to the client
Respond ==
    /\ resp # NoResponse
    /\ resp' = NoResponse
    /\ UNCHANGED <<current_dataset, lastOk, names, roles, inflight, uploading>>

Next == Upload \/ GetTimeseries \/ DownloadTimeseries \/ Respond

Spec == Init /\ [][Next]_vars

(***************************************************************************)
(* The role detection on its own, over every sequence of distinct          *)
(* coordinate names of the pool up to MaxCoords names (the names of a      *)
(* dataset are distinct: they are the keys of its coordinate mapping).     *)
(***************************************************************************)
NamePool ==
    { N_time, N_valid_time, N_lat, N_lon, N_Latitude, N_Longitude,
      N_relative_time, N_level, N_station, N_DATE }

RECURSIVE NameSeqs(_)
NameSeqs(n) ==
    IF n = 0 THEN { << >> }
    ELSE LET S == NameSeqs(n - 1)
         IN  S \cup { Append(p[1], p[2]) :
                        p \in { q \in S \X NamePool : q[2] \notin Range(q[1]) } }

NoDetection == [query |-> NoRoles, export |-> NoRoles, map |-> NoRoles,
                info |-> NoName, done |-> FALSE]

ClassifyInit ==
    /\ current_dataset = [ds |-> NoDataset, filename |-> NoFilename]
    /\ resp = NoResponse
    /\ lastOk = ""
    /\ names \in NameSeqs(MaxCoords)
    /\ roles = NoDetection
    /\ inflight = NoQuery
    /\ uploading = NoUpload

Classify ==
    /\ ~roles.done
    /\ roles' = [query |-> DetectCoords(names),
                 export |-> ExportDetectCoords(names),
                 map |-> MapDetectCoords(names),
                 info |-> InfoTimeVar(names),
                 done |-> TRUE]
    /\ UNCHANGED <<current_dataset, resp, lastOk, names, inflight, uploading>>

ClassifyNext == Classify

ClassifySpec == ClassifyInit /\ [][ClassifyNext]_vars

(***************************************************************************)
(* The threaded server: a query and an upload in flight at the same time,  *)
(* each advancing by the steps at which it reads or writes the slot.       *)
(* inflight is the query: its position, its request, its local variable ds *)
(* and, as history, the slot's dataset when it began and when it finished. *)
(* uploading is the upload: its position and its file.                     *)
(***************************************************************************)
\* the requests of the query in flight
ConcRequests ==
    { NoBody,
      Req(TRUE, 0, TRUE, 6, NoDate, NoDate),
      Req(TRUE, MaxLatQ, TRUE, 6, Naive(0), Naive(MaxTick)) }

\* a handler that reads the slot again where it uses the dataset
QueryDsReread(local, slot) == slot

\* the dataset a handler works on after its first line: its local ds
QueryDs(local, slot) == local

\* the answer of handler op
QueryResult(op, ds, req) ==
    IF op = "timeseries" THEN TimeseriesResult(ds, req)
    ELSE ExportResult(ds, req, FALSE, FALSE)

\* ds = current_dataset.get('ds')
QBegin ==
    \E op \in {"timeseries", "export"}, req \in ConcRequests :
        /\ inflight.pc = "idle"
        /\ inflight' = [pc |-> "read", op |-> op, req |-> req,
                        ds |-> current_dataset.ds,
                        began |-> current_dataset.ds, seen |-> NoDataset]
        /\ UNCHANGED <<current_dataset, resp, lastOk, names, roles, uploading>>

\* the rest of the handler, down to its answer
QFinish ==
    /\ inflight.pc = "read"
    /\ resp' = QueryResult(inflight.op,
                           QueryDs(inflight.ds, current_dataset.ds), inflight.req)
    /\ inflight' = [inflight EXCEPT !.pc = "done", !.seen = current_dataset.ds]
    /\ UNCHANGED <<current_dataset, lastOk, names, roles, uploading>>

\* the answer goes out to the client
QRespond ==
    /\ inflight.pc = "done"
    /\ resp' = NoResponse
    /\ inflight' = NoQuery
    /\ UNCHANGED <<current_dataset, lastOk, names, roles, uploading>>

\* upload_file down to file.save
UBegin ==
    \E f \in Uploads :
        /\ uploading.pc = "idle"
        /\ f.part /\ ~(f.stem = "" /\ ~f.dot) /\ allowed_file(f)
        /\ uploading' = [pc |-> "saved", f |-> f]
        /\ UNCHANGED <<current_dataset, resp, lastOk, names, roles, inflight>>

\* extract_file_info
UExtract ==
    LET info == extract_file_info(current_dataset, uploading.f)
    IN  /\ uploading.pc = "saved"
        /\ current_dataset' = info.slot
        /\ uploading' = IF info.success THEN [uploading EXCEPT !.pc = "extracted"]
                        ELSE NoUpload
        /\ UNCHANGED <<resp, lastOk, names, roles, inflight>>

\* the second open of the file: it raises, or the slot takes the dataset
\* and the filename
UReopen ==
    \E ioFault \in BOOLEAN :
        /\ uploading.pc = "extracted"
        /\ IF ioFault
           THEN /\ uploading' = NoUpload
                /\ UNCHANGED current_dataset
           ELSE /\ uploading' = [uploading EXCEPT !.pc = "loaded"]
                /\ current_dataset' =
                       [ds |-> uploading.f.ds,
                        filename |-> [stem |-> uploading.f.stem, ext |-> uploading.f.ext]]
        /\ UNCHANGED <<resp, lastOk, names, roles, inflight>>

\* create_coverage_map and the answer of the upload
UMap ==
    /\ uploading.pc = "loaded"
    /\ uploading' = NoUpload
    /\ lastOk' = IF MapRaises(uploading.f.ds) THEN lastOk ELSE uploading.f.ds.id
    /\ UNCHANGED <<current_dataset, resp, names, roles, inflight>>

ConcNext == QBegin \/ QFinish \/ QRespond \/ UBegin \/ UExtract \/ UReopen \/ UMap

ConcSpec == Init /\ [][ConcNext]_vars

(***************************************************************************)
(* Properties.                                                             *)
(***************************************************************************)
IsQuery == resp.op \in {"timeseries", "export"}

Loaded == current_dataset.ds # NoDataset

\* the request has a body and both coordinates
FullRequest == resp.req.body /\ resp.req.hasLat /\ resp.req.hasLon

\* the values of coordinate `name` in a coordinate list
ValsOf(coords, name) == CoordOf(coords, name).vals

\* C1: as long as no upload has returned success, every time-series query
\* and every export is answered with the failure 'No dataset loaded', never
\* with a fault or a data payload.
C1_NoDatasetUntilUploadSucceeds ==
    (IsQuery /\ lastOk = "") =>
        (resp.status = "error" /\ resp.error = E_NoDataset)

\* C2: the slot holds exactly the dataset of the most recent successful
\* upload, and every query is computed from that dataset.
C2_SlotHoldsLastSuccessfulUpload ==
    lastOk # "" =>
        /\ current_dataset.ds.id = lastOk
        /\ IsQuery => resp.src = lastOk

\* the role a name is considered for: latitude, else longitude, else time
QualifiesLat(n) == Contains(S_lat, Lower(n))

QualifiesLon(n) == ~QualifiesLat(n) /\ Contains(S_lon, Lower(n))

QualifiesTime(n) ==
    ~QualifiesLat(n) /\ ~Contains(S_lon, Lower(n)) /\ IsTimeLike(Lower(n))

FirstName(ns, Q(_)) ==
    IF \E i \in 1..Len(ns) : Q(ns[i])
    THEN ns[CHOOSE i \in 1..Len(ns) : Q(ns[i]) /\ \A j \in 1..(i - 1) : ~Q(ns[j])]
    ELSE NoName

\* C3: the role detection of the coverage map, of the time-series query and
\* of the export gives each role to the first name, in dataset order, that
\* qualifies for it; a later qualifying name never replaces an earlier one.
C3_FirstQualifyingNameWins ==
    roles.done =>
        /\ \A d \in {roles.query, roles.export} :
              /\ d.lat = FirstName(names, QualifiesLat)
              /\ d.lon = FirstName(names, QualifiesLon)
              /\ d.time = FirstName(names, QualifiesTime)
        /\ roles.map.lat = FirstName(names, QualifiesLat)
        /\ roles.map.lon = FirstName(names, QualifiesLon)

\* C4: a name that matches several role substrings is considered for the
\* first of them only, in the order latitude, longitude, time: the name a
\* role resolves to matches no earlier role's substring, so no name holds
\* two roles and the resolved names are pairwise distinct.
C4_OneRolePerName ==
    roles.done =>
        \A d \in {roles.query, roles.export} :
            /\ d.lat # NoName => QualifiesLat(d.lat)
            /\ d.lon # NoName => QualifiesLon(d.lon)
            /\ d.time # NoName => QualifiesTime(d.time)
            /\ (d.lat # NoName /\ d.lon # NoName) => d.lat # d.lon
            /\ (d.lat # NoName /\ d.time # NoName) => d.lat # d.time
            /\ (d.lon # NoName /\ d.time # NoName) => d.lon # d.time

\* "relative_time" matches "lat" and "time": it is latitude, and time goes
\* to another name
C4_Witness ==
    /\ roles.done
    /\ roles.query.lat = N_relative_time
    /\ roles.export.lat = N_relative_time
    /\ roles.query.time = N_time

\* the dataset value is nearest to q on its axis
IsNearest(vals, v, q) ==
    v \in Range(vals) /\ \A w \in Range(vals) : Abs(v - q) <= Abs(w - q)

\* C5: the resolved latitude is a value of the latitude array and the
\* resolved longitude a value of the longitude array, each at the smallest
\* distance from the query on its own axis, also for a query outside the
\* grid; resolving the resolved point gives the same point.
C5_ResolvedPointOnGrid ==
    (IsQuery /\ resp.status = "ok") =>
        LET coords == current_dataset.ds.coords
            lats == ValsOf(coords, resp.roles.lat)
            lons == ValsOf(coords, resp.roles.lon)
            again == [resp.req EXCEPT !.lat = resp.lat, !.lon = resp.lon]
            second == IF resp.op = "timeseries"
                      THEN TimeseriesResult(current_dataset.ds, again)
                      ELSE ExportResult(current_dataset.ds, again, TRUE, FALSE)
        IN  /\ IsNearest(lats, resp.lat, resp.req.lat)
            /\ IsNearest(lons, resp.lon, resp.req.lon)
            /\ second.status = "ok"
            /\ second.lat = resp.lat
            /\ second.lon = resp.lon

\* a latitude south of the grid and a longitude half-way between two grid
\* values, in an export
C5_Witness ==
    /\ resp.op = "export"
    /\ resp.status = "ok"
    /\ resp.req.lat < 0
    /\ resp.lat = 0
    /\ resp.req.lon = 6
    /\ resp.lon = 7

NoNameHas(ds, sub) ==
    \A i \in 1..Len(ds.coords) : ~Contains(sub, Lower(ds.coords[i].name))

\* C6: on a loaded dataset with no coordinate name holding "lat", or none
\* holding "lon", every time-series query and every export with both
\* coordinates supplied fails with 'Lat/Lon not found in dataset', whatever
\* the window; no slice and no point come out of it.
C6_MissingSpatialDimension ==
    (/\ IsQuery
     /\ Loaded
     /\ FullRequest
     /\ NoNameHas(current_dataset.ds, S_lat) \/ NoNameHas(current_dataset.ds, S_lon)) =>
        /\ resp.status = "error"
        /\ resp.error = E_NoLatLon
        /\ resp.view = << >>

\* an export with a window on the zonal-mean dataset (no longitude)
C6_Witness ==
    /\ resp.op = "export"
    /\ resp.src = "zonal"
    /\ FullRequest
    /\ resp.req.startDate.given
    /\ resp.req.endDate.given
    /\ resp.error = E_NoLatLon

\* the window of the request is applied: a time role, and both bounds naive
NaiveWindow ==
    /\ resp.roles.time # NoName
    /\ resp.req.startDate.given /\ ~resp.req.startDate.aware
    /\ resp.req.endDate.given /\ ~resp.req.endDate.aware

\* C7: with a time role and a window [start, end], the data a successful
\* time-series query or export uses holds exactly the steps t of the
\* dataset with start <= t <= end.
C7_WindowIsExactlyInclusive ==
    (IsQuery /\ resp.status = "ok" /\ NaiveWindow) =>
        Range(ValsOf(resp.view, resp.roles.time))
            = { t \in Range(ValsOf(current_dataset.ds.coords, resp.roles.time)) :
                    resp.req.startDate.t <= t /\ t <= resp.req.endDate.t }

\* C8: a window whose end is before its start, by one day or by more, makes
\* the time-series query and the export fail with 'No data in selected date
\* range' (on a dataset whose latitude, longitude and time are resolved).
C8_ReversedWindowIsEmpty ==
    (/\ IsQuery
     /\ Loaded
     /\ FullRequest
     /\ resp.roles.lat # NoName
     /\ resp.roles.lon # NoName
     /\ NaiveWindow
     /\ resp.req.endDate.t < resp.req.startDate.t) =>
        (resp.status = "error" /\ resp.error = E_NoData)

\* C9: without a time role, or without a complete window, nothing is
\* sliced: the query is never answered 'No data in selected date range',
\* and the data it goes on with is the whole dataset, every step of it (a
\* time-series query then succeeds, an export gets as far as its table).
C9_NoWindowNoSlicing ==
    (/\ IsQuery
     /\ Loaded
     /\ \/ resp.roles.time = NoName
        \/ ~resp.req.startDate.given
        \/ ~resp.req.endDate.given) =>
        /\ resp.error # E_NoData
        /\ resp.lo = NoDate /\ resp.hi = NoDate
        /\ resp.status = "ok" => resp.view = current_dataset.ds.coords
        /\ (FullRequest /\ resp.roles.lat # NoName /\ resp.roles.lon # NoName
                /\ CanSelect(current_dataset.ds.coords, resp.roles.lat)
                /\ CanSelect(current_dataset.ds.coords, resp.roles.lon))
            => (resp.status = "ok" \/ resp.frame # << >>)

\* a start date without an end date, on a dataset that has a time role
C9_Witness ==
    /\ resp.op = "timeseries"
    /\ resp.status = "ok"
    /\ resp.roles.time # NoName
    /\ resp.req.startDate.given
    /\ resp.req.startDate.t > 0
    /\ ~resp.req.endDate.given
    /\ resp.view = current_dataset.ds.coords

\* C10: on a naive time axis, a window with a timezone-aware bound is
\* sliced without a fault, the aware bounds converted to naive ones before
\* the comparison, in the time-series query and in the export.
C10_AwareBoundsConverted ==
    (/\ IsQuery
     /\ Loaded
     /\ FullRequest
     /\ resp.roles.lat # NoName
     /\ resp.roles.lon # NoName
     /\ resp.roles.time # NoName
     /\ SliceOk(CoordOf(current_dataset.ds.coords, resp.roles.time))
     /\ resp.req.startDate.given
     /\ resp.req.endDate.given
     /\ resp.req.startDate.aware \/ resp.req.endDate.aware) =>
        /\ resp.status # "fault"
        /\ ~resp.lo.aware
        /\ ~resp.hi.aware

\* the variable of that name
VarNamed(dvars, name) == dvars[CHOOSE i \in 1..Len(dvars) : dvars[i].name = name]

\* the column of that name
ColumnNamed(df, name) == df[CHOOSE j \in 1..Len(df) : df[j].name = name]

HasColumn(df, name) == \E j \in 1..Len(df) : df[j].name = name

\* the request names a point within the extent of the grid
InsideGrid ==
    LET Within(vals, q) ==
            (\E v \in Range(vals) : v <= q) /\ (\E v \in Range(vals) : q <= v)
    IN  /\ Within(ValsOf(resp.view, resp.roles.lat), resp.req.lat)
        /\ Within(ValsOf(resp.view, resp.roles.lon), resp.req.lon)

\* the variables with a value that is not missing at the resolved point and
\* within the window of the response
WithData ==
    { resp.src } \X
    { current_dataset.ds.vars[i].name : i \in
        { k \in 1..Len(current_dataset.ds.vars) :
            ~AllNull(PointValues(current_dataset.ds.vars[k], resp.view,
                                 resp.roles, resp.lat, resp.lon)) } }

\* C11: a successful time-series answer for a point inside the grid has an
\* entry for exactly the variables that have a value at the resolved point
\* within the window, whether or not they span time, and for no other
\* (stated for the datasets whose time role is one of their dimensions).
C11_EntryForEveryVariableWithData ==
    (/\ resp.op = "timeseries"
     /\ resp.status = "ok"
     /\ InsideGrid
     /\ resp.roles.time \in Range(DimNames(resp.view))) =>
        { resp.src } \X { resp.charts[i].name : i \in 1..Len(resp.charts) } = WithData

\* the values of a variable as stored, and as stored minus 273.15
Stored(name) ==
    PointValues(VarNamed(current_dataset.ds.vars, name), resp.view,
                resp.roles, resp.lat, resp.lon)

Celsius(cells) ==
    [n \in 1..Len(cells) |->
        IF cells[n].kind = "num" THEN Num(cells[n].v - 27315) ELSE cells[n]]

\* the units of the variable, lower-cased, hold the letter k
UnitHoldsK(name) ==
    LET u == VarNamed(current_dataset.ds.vars, name).units
    IN  u.has /\ \E i \in 1..Len(u.text) : u.text[i] \in {"k", "K"}

\* C12: every variable a query emits whose unit holds 'k' or 'K' is emitted
\* with each value 273.15 smaller than stored and, in a chart, the unit C;
\* every other variable is emitted with its stored values and its own unit.
\* Each variable goes by its own unit.
C12_KelvinPerVariable ==
    /\ (resp.op = "timeseries" /\ resp.status = "ok") =>
          \A i \in 1..Len(resp.charts) :
              LET c == resp.charts[i]
                  u == VarNamed(current_dataset.ds.vars, c.name).units
              IN  IF UnitHoldsK(c.name)
                  THEN c.y = Celsius(Stored(c.name)) /\ c.yaxis_title = <<67>>
                  ELSE /\ c.y = Stored(c.name)
                       /\ u.has => c.yaxis_title = Encode(u.text)
    /\ (resp.op = "export" /\ resp.status = "ok") =>
          \A j \in 1..Len(resp.table) :
              LET c == resp.table[j]
                  IsVar == \E i \in 1..Len(current_dataset.ds.vars) :
                               current_dataset.ds.vars[i].name = c.name
                  rest == RestDims(DimNames(resp.view), resp.roles)
                  rows == Product([i \in 1..Len(rest) |-> ValsOf(resp.view, rest[i])])
                  stored == [n \in 1..Len(rows) |->
                                ValueAt(VarNamed(current_dataset.ds.vars, c.name), rest,
                                        rows[n], resp.roles, resp.lat, resp.lon)]
              IN  IsVar => c.cells = (IF UnitHoldsK(c.name) THEN Celsius(stored)
                                      ELSE stored)

\* 273.15 and 283.15 kelvin come out as 0.0 and 10.0 with the unit C, next
\* to rainfall in mm that comes out as stored
C12_Witness ==
    /\ resp.op = "timeseries"
    /\ resp.status = "ok"
    /\ \E i, j \in 1..Len(resp.charts) :
          /\ resp.charts[i].name = N_t2m
          /\ resp.charts[i].y[1] = Num(0)
          /\ resp.charts[i].y[2] = Num(1000)
          /\ resp.charts[i].yaxis_title = <<67>>
          /\ resp.charts[j].name = N_tp
          /\ resp.charts[j].y = Stored(N_tp)
          /\ resp.charts[j].yaxis_title = Encode(U_mm)

\* an export that got as far as its table and was answered with it
Exported == resp.op = "export" /\ resp.status = "ok"

\* the column holds the value 0 in every row
AllZero(c) == \A n \in 1..Len(c.cells) : c.cells[n] = Num(0)

\* '<name>(<text>)'
Entry(name, text) == Encode(name) \o <<40>> \o text \o <<41>>

InDropped(e) == \E i \in 1..Len(resp.dropped) : resp.dropped[i] = e

\* a column of the data frame that the table no longer has, and that held
\* one distinct value
RemovedConstant(c) ==
    ~HasColumn(resp.table, c.name) /\ ~AllNull(c.cells) /\ Cardinality(Range(c.cells)) = 1

\* C13 as stated: a column that is 0 in every row is, without the retain
\* flag, absent from the table and listed as '<name>(0)'; with the flag it is
\* kept and the list is empty; every column removed for holding one distinct
\* value is listed by name.
C13_ZeroColumnListedAsNameZero ==
    Exported =>
        \A j \in 1..Len(resp.frame) :
            LET c == resp.frame[j]
            IN  /\ (AllZero(c) /\ ~resp.req.keep_constant) =>
                      /\ ~HasColumn(resp.table, c.name)
                      /\ InDropped(Entry(c.name, <<48>>))
                /\ (AllZero(c) /\ resp.req.keep_constant) =>
                      /\ HasColumn(resp.table, c.name)
                      /\ resp.dropped = << >>
                /\ RemovedConstant(c) =>
                      \E i \in 1..Len(resp.dropped) :
                          SubSeq(resp.dropped[i], 1, Len(c.name) + 1)
                              = Encode(c.name) \o <<40>>

\* the text of 0 in a column: "0" in an integer column, "0.0" in a
\* floating-point column
ZeroText(c) == IF c.dtype = "int" THEN <<48>> ELSE <<48, 46, 48>>

\* C13 amended: the entry of a zero column is '<name>(0)' for an integer
\* column and '<name>(0.0)' for a floating-point column (the value as the
\* data frame prints it); the rest as stated.
C13_ZeroColumnListedAsPrinted ==
    Exported =>
        \A j \in 1..Len(resp.frame) :
            LET c == resp.frame[j]
            IN  /\ (AllZero(c) /\ ~resp.req.keep_constant) =>
                      /\ ~HasColumn(resp.table, c.name)
                      /\ InDropped(Entry(c.name, ZeroText(c)))
                /\ (AllZero(c) /\ resp.req.keep_constant) =>
                      /\ HasColumn(resp.table, c.name)
                      /\ resp.dropped = << >>
                /\ RemovedConstant(c) =>
                      \E i \in 1..Len(resp.dropped) :
                          SubSeq(resp.dropped[i], 1, Len(c.name) + 1)
                              = Encode(c.name) \o <<40>>

\* rainfall that is 0.0 on every step and a land-sea mask that is 0, both
\* removed and listed, next to a temperature column that stays
C13_Witness ==
    /\ Exported
    /\ ~resp.req.keep_constant
    /\ InDropped(Entry(N_tp, <<48, 46, 48>>))
    /\ InDropped(Entry(N_lsm, <<48>>))
    /\ ~HasColumn(resp.table, N_tp)
    /\ HasColumn(resp.table, N_t2m)

\* C14: an export on a dataset with a time role and a window that is not
\* empty, a window of one step included, with or without the retain flag,
\* has one data row per time step of the data it uses and holds the time
\* column alongside the variable columns (stated for the datasets whose
\* dimensions are latitude, longitude and the time role).
C14_OneRowPerStepWithTimeColumn ==
    (/\ Exported
     /\ NaiveWindow
     /\ RestDims(DimNames(resp.view), resp.roles) = <<resp.roles.time>>
     /\ \E t \in Range(ValsOf(current_dataset.ds.coords, resp.roles.time)) :
            resp.req.startDate.t <= t /\ t <= resp.req.endDate.t) =>
        /\ HasColumn(resp.table, resp.roles.time)
        /\ \A j \in 1..Len(resp.table) :
               Len(resp.table[j].cells) = Len(ValsOf(resp.view, resp.roles.time))

\* C15: with a dataset loaded, a time-series query or an export without a
\* JSON body, or without latitude or longitude, is answered with a failure
\* that carries a message, never with a fault.
C15_MissingFieldIsInvalidRequest ==
    (IsQuery /\ Loaded /\ ~FullRequest) =>
        (resp.status = "error" /\ resp.error # "")

\* a control character
IsControl(c) == c < 32 \/ (127 <= c /\ c <= 159)

\* C16: in an export of any of the four formats every cell handed to the
\* writer is free of control characters, a missing value is handed over as
\* the text NaN, and sanitizing a handed text again changes nothing.  (How a
\* missing number reads in a workbook is left to the workbook library.)
C16_CellsSanitizedInEveryFormat ==
    (resp.op = "export" /\ resp.frame # << >>
        /\ FiletypeOf(resp.req) \in {"csv", "xlsx", "txt", "docx"}
        /\ resp.error # E_Docx) =>
        /\ resp.status = "ok"
        /\ \A j \in 1..Len(resp.handed) :
              \A n \in 1..Len(resp.handed[j].cells) :
                  LET h == resp.handed[j].cells[n]
                      raw == resp.table[j].cells[n]
                  IN  /\ h.kind = "str" =>
                            /\ \A i \in 1..Len(h.s) : ~IsControl(h.s[i])
                            /\ sanitize_text(h) = h.s
                      /\ (raw.kind = "nan" /\ FiletypeOf(resp.req) # "xlsx") =>
                            h = Str(<<78, 97, 78>>)

\* a step in which a handler takes a request and leaves its answer
Answers(op) == resp.op = "none" /\ resp'.op = op

\* C17: an upload whose extension is not nc, grib or grb in any letter case
\* is refused before the file is saved and before it is decoded, and leaves
\* the resident dataset and its filename as they were.
C17_BadExtensionRefusedBeforeSave ==
    [][(Answers("upload") /\ Lower(resp'.file.ext) \notin {X_nc, X_grib, X_grb}) =>
          /\ resp'.status = "error"
          /\ ~resp'.saved
          /\ ~resp'.decoded
          /\ current_dataset' = current_dataset]_vars

\* notes.csv refused while a dataset is resident
C17_Witness ==
    /\ resp.op = "upload"
    /\ resp.file.ext = X_csv
    /\ resp.status = "error"
    /\ ~resp.saved
    /\ Loaded

\* C18: an upload answered with a failure leaves the slot as it was, the
\* dataset and the filename, so that both always come from one successful
\* upload.
C18_FailedUploadLeavesSlot ==
    [][(Answers("upload") /\ resp'.status = "error") =>
          current_dataset' = current_dataset]_vars

C20_AnswerFromTheDatasetRead ==
    inflight.pc = "done" =>
        resp = QueryResult(inflight.op, inflight.began, inflight.req)

\* a query that began on one dataset, finished after an upload had put
\* another into the slot, and answered with data
C20_Witness ==
    /\ inflight.pc = "done"
    /\ inflight.began # NoDataset
    /\ inflight.seen # NoDataset
    /\ inflight.seen # inflight.began
    /\ resp.status = "ok"
    /\ resp.src = inflight.began.id

\* C21: an export that writes a date-range line (start and end both in the
\* request) shows in it the date of the start and the date of the end as
\* requested, with a time coordinate in the dataset or without one, in each
\* of the four formats.
C21_DateRangeAsRequested ==
    (Exported /\ resp.req.startDate.given /\ resp.req.endDate.given) =>
        /\ resp.date_range.shown
        /\ resp.date_range.start = resp.req.startDate.t \div Day
        /\ resp.date_range.end = resp.req.endDate.t \div Day

====
